---------------------------- MODULE Spec2Model ----------------------------
(***************************************************************************)
(* State-machine model of the flashcard application.                       *)
(*                                                                         *)
(* Learn Mode (src/src/pages/LearnMode.tsx): the load of a set, the        *)
(* confidence update on an answer, the delayed advance to the next card,   *)
(* shuffle, the spaced-repetition and typing-mode switches, the typed      *)
(* answer, the hint and Exit.  Spec is a session answered with the         *)
(* buttons, SpecTyping one that also types its answers, SpecTyped and      *)
(* SpecHint sessions on one card whose definition is known, SpecLoop and   *)
(* SpecSequential sessions whose pending advance eventually runs.          *)
(* Test Mode (src/src/pages/TestMode.tsx): the load, the settings form and *)
(* the generation of the questions, by the AI gateway or locally           *)
(* (SpecTest), the answers up to the results (SpecRun) and the countdown   *)
(* of a timed test (SpecTimed).                                            *)
(* The question-generation endpoint (src/unnamed/part_000, serve): the     *)
(* Response to a request, as a function of what the request meets          *)
(* (SpecEdge).                                                             *)
(*                                                                         *)
(* React semantics the model relies on: every user event runs the handler  *)
(* of the latest render, so a handler reads the current state; a           *)
(* setTimeout callback or the code behind an await keeps the variables of  *)
(* the render that created it (its closure).  Card objects are created     *)
(* once by the load and are mutated in place afterwards, so every array    *)
(* (current or captured) sees the same confidence of a card: confidence is *)
(* a function of the card id.  All timers have the same delay, so they     *)
(* fire in the order they were set.  answered and shuffles count           *)
(* operations and only bound the exploration; scored records the position  *)
(* of the presented card in its cycle.                                     *)
(***************************************************************************)
EXTENDS Integers, Sequences, FiniteSets, TLC

\* ------------------------------------------------------------------ bounds

\* Largest number of cards the data store returns for the set.
MaxCards == 2

\* Largest number of advance callbacks pending at once.
MaxPending == 2

\* Largest number of answers scored in a session.
MaxAnswers == 3

\* Largest number of shuffles in a session.
MaxShuffles == 1

\* Largest number of characters in the message content the AI gateway returns.
MaxContent == 3

\* Largest number of characters in a text typed in typing mode.
MaxText == 3

\* ----------------------------------------------------------------- helpers

Min(a, b) == IF a < b THEN a ELSE b

Max(a, b) == IF a > b THEN a ELSE b

Range(s) == {s[i] : i \in 1..Len(s)}

\* The rows of a set of n cards, in position order; a card's id is its position.
Rows(n) == [i \in 1..n |-> i]

\* JavaScript's `v || 50` on a number: 0 is falsy, so 0 reads as 50.
OrDefault(v) == IF v = 0 THEN 50 ELSE v

\* The texts the user types, as sequences of characters: nothing, a blank, a
\* letter.
Inputs == {<<>>, <<" ">>, <<"a">>}

\* String.prototype.trim: the text without its leading and trailing blanks.
RECURSIVE Trim(_)
Trim(s) ==
    IF s = <<>> THEN s
    ELSE IF Head(s) = " " THEN Trim(Tail(s))
    ELSE IF s[Len(s)] = " " THEN Trim(SubSeq(s, 1, Len(s) - 1))
    ELSE s

\* ------------------------------------------------------------------- state

VARIABLES
    reply,             \* what the data store answers to the two queries of the load
    isLoading,         \* state isLoading
    navigated,         \* navigate("/") was called: the page has been left
    flashcards,        \* state flashcards: the array of cards, as a sequence of card ids
    confidence,        \* the confidence field of each card object, by card id
    currentIndex,      \* state currentIndex (0-based, as in the code)
    showAnswer,        \* state showAnswer
    correctCount,      \* state correctCount
    streak,            \* state streak
    spacedRepetition,  \* state spacedRepetition
    typingMode,        \* state typingMode
    userAnswer,        \* state userAnswer: the text of the input, a sequence of characters
    timers,            \* pending setTimeout callbacks, oldest first, each with its closure
    scored,            \* the card presented now has been scored since it was presented
    answered,          \* number of handleAnswer calls so far (bounds the exploration)
    shuffles           \* number of handleShuffle calls so far (bounds the exploration)

\* The state of the Test Mode page (src/src/pages/TestMode.tsx); its flashcards,
\* isLoading and navigate are named test... here.
VARIABLES
    testReply,         \* what the data store answers to the two queries of the load
    testIsLoading,     \* state isLoading
    testNavigated,     \* navigate("/") was called: the page has been left
    testFlashcards,    \* state flashcards: the array of cards, as a sequence of card ids
    questionCount,     \* state questionCount
    useAI,             \* state useAI
    timeLimit,         \* state timeLimit (minutes)
    selectedTypes,     \* state selectedTypes, as a set
    isGenerating,      \* state isGenerating
    testStarted,       \* state testStarted
    questions,         \* state questions
    timeRemaining,     \* state timeRemaining: <<>> for null, <<n>> for n seconds
    testCurrentIndex,  \* state currentIndex (0-based)
    testUserAnswer,    \* state userAnswer: the text typed or the option chosen
    showResults,       \* state showResults
    generating         \* the generateQuestions call awaiting the gateway: <<>> or <<its closure>>

\* The question-generation endpoint (src/unnamed/part_000, serve).
VARIABLES
    req,               \* the request, with what its environment and the gateway will answer
    served             \* the Response returned: <<>> before the handler ends, <<r>> after

learnVars == <<reply, isLoading, navigated, flashcards, confidence, currentIndex,
               showAnswer, correctCount, streak, spacedRepetition, timers, answered,
               shuffles, typingMode, userAnswer, scored>>

\* The state of a running test, which the settings form leaves alone.
runVars == <<testCurrentIndex, testUserAnswer, showResults>>

testVars == <<testReply, testIsLoading, testNavigated, testFlashcards, questionCount,
              useAI, timeLimit, selectedTypes, isGenerating, testStarted, questions,
              timeRemaining, generating, runVars>>

edgeVars == <<req, served>>

\* What a Learn Mode session leaves alone: the other page and the endpoint.
otherPages == <<testVars, edgeVars>>

vars == <<learnVars, testVars, edgeVars>>

\* The answers of the data store: the set lookup errors, finds no record or finds
\* the set; the card query (issued only when the set was found) errors or
\* returns the rows ordered by position.
Replies ==
    {[setError |-> TRUE, setFound |-> FALSE, cardsError |-> FALSE, cardsData |-> <<>>],
     [setError |-> FALSE, setFound |-> FALSE, cardsError |-> FALSE, cardsData |-> <<>>],
     [setError |-> FALSE, setFound |-> TRUE, cardsError |-> TRUE, cardsData |-> <<>>]}
    \cup {[setError |-> FALSE, setFound |-> TRUE, cardsError |-> FALSE,
           cardsData |-> Rows(n)] : n \in 0..MaxCards}

\* The reply and the request of a page or endpoint that is not in use.
IdleReply ==
    [setError |-> TRUE, setFound |-> FALSE, cardsError |-> FALSE, cardsData |-> <<>>]

IdleRequest == [method |-> "OPTIONS"]

\* The Learn Mode page as constructed (the useState defaults), its load to be
\* answered by r.
LearnModeState(r) ==
    /\ reply = r
    /\ isLoading = TRUE
    /\ navigated = FALSE
    /\ flashcards = <<>>
    /\ confidence = <<>>
    /\ currentIndex = 0
    /\ showAnswer = FALSE
    /\ correctCount = 0
    /\ streak = 0
    /\ spacedRepetition = TRUE
    /\ timers = <<>>
    /\ answered = 0
    /\ shuffles = 0
    /\ typingMode = FALSE
    /\ userAnswer = <<>>
    /\ scored = FALSE

AllTypes == {"multiple_choice", "true_false", "fill_blank"}

\* useState(10) for questionCount, and the 10 of the load's Math.min.
DefaultQuestionCount == 10

\* The Test Mode page as constructed, its load to be answered by r.
TestModeState(r) ==
    /\ testReply = r
    /\ testIsLoading = TRUE
    /\ testNavigated = FALSE
    /\ testFlashcards = <<>>
    /\ questionCount = DefaultQuestionCount
    /\ useAI = TRUE
    /\ timeLimit = 0
    /\ selectedTypes = AllTypes
    /\ isGenerating = FALSE
    /\ testStarted = FALSE
    /\ questions = <<>>
    /\ timeRemaining = <<>>
    /\ generating = <<>>
    /\ testCurrentIndex = 0
    /\ testUserAnswer = <<>>
    /\ showResults = FALSE

\* The endpoint with request r arrived and not yet answered.
EdgeState(r) ==
    /\ req = r
    /\ served = <<>>

Init ==
    /\ \E r \in Replies : LearnModeState(r)
    /\ TestModeState(IdleReply)
    /\ EdgeState(IdleRequest)

\* The page is rendered past the loading guard: the card, the aggregate
\* (avgConfidence, computed by the render) and the buttons exist only then.
\* navigate("/") leaves the route of the page, so the page is not rendered
\* afterwards.
Rendered == ~isLoading /\ ~navigated

\* The card object at currentIndex of the current array.
CurrentCard == flashcards[currentIndex + 1]

\* -------------------------------------------------------------------- load

LoadOutcomeNoEmptyCheck(r) ==
    IF r.setError THEN "failed"
    ELSE IF ~r.setFound THEN "notFound"
    ELSE IF r.cardsError THEN "failed"
    ELSE "ready"

\* The branch fetchSetAndCards takes on the store's answer.
LoadOutcome(r) ==
    IF r.setError THEN "failed"
    ELSE IF ~r.setFound THEN "notFound"
    ELSE IF r.cardsError THEN "failed"
    ELSE IF Len(r.cardsData) = 0 THEN "empty"
    ELSE "ready"

CardsWithMetricsZero(cardsData) == [c \in Range(cardsData) |-> 0]

\* cardsData.map(card => ({...card, confidence: 50, lastSeen})): the confidence
\* of the card objects the session works on.
CardsWithMetrics(cardsData) == [c \in Range(cardsData) |-> 50]

FetchSetAndCards ==
    /\ isLoading
    /\ IF LoadOutcome(reply) = "ready"
       THEN /\ flashcards' = reply.cardsData
            /\ confidence' = CardsWithMetrics(reply.cardsData)
            /\ UNCHANGED navigated
       ELSE /\ navigated' = TRUE
            /\ UNCHANGED <<flashcards, confidence>>
    /\ isLoading' = FALSE
    /\ UNCHANGED <<otherPages, reply, currentIndex, showAnswer, correctCount, streak,
                   spacedRepetition, timers, answered, shuffles, typingMode,
                   userAnswer, scored>>

\* ----------------------------------------------------------------- shuffle

\* The arrangements of n positions, for every array length of the model.
Arrangements == [n \in 0..MaxCards |-> Permutations(1..n)]

\* [...flashcards].sort(() => Math.random() - 0.5): the comparator is random, so
\* the result is some arrangement of the same card objects.
Shuffled(cards) ==
    {[i \in 1..Len(cards) |-> cards[p[i]]] : p \in Arrangements[Len(cards)]}

HandleShuffleKeepsIndex ==
    /\ Rendered
    /\ shuffles < MaxShuffles
    /\ shuffles' = shuffles + 1
    /\ showAnswer' = FALSE
    /\ scored' = FALSE
    /\ UNCHANGED <<otherPages, reply, isLoading, navigated, confidence, currentIndex,
                   correctCount, streak, spacedRepetition, timers, answered,
                   typingMode, userAnswer>>
    /\ flashcards' \in Shuffled(flashcards)

HandleShuffle ==
    /\ Rendered
    /\ shuffles < MaxShuffles
    /\ shuffles' = shuffles + 1
    /\ currentIndex' = 0
    /\ showAnswer' = FALSE
    /\ scored' = FALSE
    /\ UNCHANGED <<otherPages, reply, isLoading, navigated, confidence, correctCount, streak,
                   spacedRepetition, timers, answered, typingMode, userAnswer>>
    /\ flashcards' \in Shuffled(flashcards)

\* -------------------------------------------------------- confidence update

NewConfidenceNoClamp(c, correct) ==
    IF correct THEN OrDefault(c) + 20 ELSE Max(0, OrDefault(c) - 25)

\* updateConfidence, the confidence it stores in the current card:
\* Math.min(100, (current.confidence || 50) + 20) when correct,
\* Math.max(0, (current.confidence || 50) - 25) otherwise.
NewConfidence(c, correct) ==
    IF correct THEN Min(100, OrDefault(c) + 20) ELSE Max(0, OrDefault(c) - 25)

NewStreakNoReset(s, correct) == IF correct THEN s + 1 ELSE s

\* updateConfidence, the streak it sets: setStreak(streak + 1) or setStreak(0).
NewStreak(s, correct) == IF correct THEN s + 1 ELSE 0

\* ----------------------------------------------------------- next-card choice

\* Insert entry e into the ascending sequence s, behind every entry whose key is
\* not larger (Array.prototype.sort is stable).
RECURSIVE Insert(_, _)
Insert(s, e) ==
    IF s = <<>> THEN <<e>>
    ELSE IF e.confidence < Head(s).confidence THEN <<e>> \o s
    ELSE <<Head(s)>> \o Insert(Tail(s), e)

RECURSIVE SortAscending(_)
SortAscending(entries) ==
    IF entries = <<>> THEN <<>>
    ELSE Insert(SortAscending(SubSeq(entries, 1, Len(entries) - 1)),
                entries[Len(entries)])

\* flashcards.map((card, idx) => ({card, idx, confidence: card.confidence || 50}))
\*           .sort((a, b) => a.confidence - b.confidence)
SortedByConfidence(cards, conf) ==
    SortAscending([i \in 1..Len(cards) |->
                     [idx |-> i - 1, confidence |-> OrDefault(conf[cards[i]])]])

\* Math.max(1, Math.floor(flashcards.length * 0.4))
PoolSize(n) == Max(1, (n * 4) \div 10)

\* sortedByConfidence.slice(0, PoolSize): the indices eligible for the draw.
LowConfidencePool(cards, conf) ==
    LET sorted == SortedByConfidence(cards, conf)
    IN  {sorted[i].idx : i \in 1..Min(PoolSize(Len(cards)), Len(sorted))}

\* What the getNextCard of the current render reads when it runs later: under
\* the sequential policy spacedRepetition, currentIndex and flashcards.length;
\* under the confidence-weighted policy spacedRepetition and the flashcards
\* array (the card objects in that render's order).
Closure ==
    IF spacedRepetition
    THEN [spacedRepetition |-> TRUE, flashcards |-> flashcards]
    ELSE [spacedRepetition |-> FALSE, currentIndex |-> currentIndex,
          length |-> Len(flashcards)]

GetNextCardSkipsOne(t, conf) ==
    IF ~t.spacedRepetition
    THEN {(t.currentIndex + 2) % t.length}
    ELSE LowConfidencePool(t.flashcards, conf)

GetNextCardNoWrap(t, conf) ==
    IF ~t.spacedRepetition
    THEN {t.currentIndex + 1}
    ELSE LowConfidencePool(t.flashcards, conf)

\* getNextCard as run by closure t, reading the card objects' confidence conf:
\* the set of indices it can return (one when sequential, the pool of the random
\* draw otherwise).
GetNextCard(t, conf) ==
    IF ~t.spacedRepetition
    THEN {(t.currentIndex + 1) % t.length}
    ELSE LowConfidencePool(t.flashcards, conf)

\* ------------------------------------------------------------------ answers

\* Math.round of the quotient a / b of two naturals, b > 0: the nearest
\* integer, a half rounding up.
RoundDiv(a, b) == (2 * a + b) \div (2 * b)

\* flashcards.reduce((sum, c) => sum + (c.confidence || 50), 0)
RECURSIVE SumConfidence(_, _)
SumConfidence(cards, conf) ==
    IF cards = <<>> THEN 0
    ELSE OrDefault(conf[Head(cards)]) + SumConfidence(Tail(cards), conf)

\* avgConfidence, the "Confidence" figure of the stats row.
AvgConfidence == RoundDiv(SumConfidence(flashcards, confidence), Len(flashcards))

\* The "Show Answer" button (shown without typing mode while the answer is
\* hidden).
ShowAnswer ==
    /\ Rendered
    /\ ~typingMode
    /\ ~showAnswer
    /\ showAnswer' = TRUE
    /\ UNCHANGED <<otherPages, reply, isLoading, navigated, flashcards, confidence, currentIndex,
                   correctCount, streak, spacedRepetition, timers, answered, shuffles,
                   typingMode, userAnswer, scored>>

\* The input of typing mode (disabled while the answer is revealed):
\* onChange={(e) => setUserAnswer(e.target.value)}.
TypeAnswer(text) ==
    /\ Rendered
    /\ typingMode
    /\ ~showAnswer
    /\ userAnswer' = text
    /\ UNCHANGED <<otherPages, reply, isLoading, navigated, flashcards, confidence, currentIndex,
                   showAnswer, correctCount, streak, spacedRepetition, timers, answered,
                   shuffles, typingMode, scored>>

\* handleSubmit, from the "Submit" button or the Enter key of typing mode: it
\* returns at once on an input that is empty after trim.
HandleSubmit ==
    /\ Rendered
    /\ typingMode
    /\ ~showAnswer
    /\ Trim(userAnswer) # <<>>
    /\ showAnswer' = TRUE
    /\ UNCHANGED <<otherPages, reply, isLoading, navigated, flashcards, confidence, currentIndex,
                   correctCount, streak, spacedRepetition, timers, answered, shuffles,
                   typingMode, userAnswer, scored>>

NewCorrectCountEveryAnswer(n, isCorrect) == n + 1

\* handleAnswer, the count it sets: setCorrectCount(correctCount + 1) when correct.
NewCorrectCount(n, isCorrect) == IF isCorrect THEN n + 1 ELSE n

UpdateConfidenceFirstCard(conf, cards, idx, isCorrect) ==
    [conf EXCEPT ![cards[1]] = NewConfidence(conf[cards[1]], isCorrect)]

\* updateConfidence, the card objects after it: current = updated[currentIndex]
\* gets its new confidence, no other card object is written.
UpdateConfidence(conf, cards, idx, isCorrect) ==
    [conf EXCEPT ![cards[idx + 1]] = NewConfidence(conf[cards[idx + 1]], isCorrect)]

HandleAnswerNoDelay(isCorrect) ==
    /\ Rendered
    /\ showAnswer
    /\ Len(timers) < MaxPending
    /\ answered < MaxAnswers
    /\ answered' = answered + 1
    /\ correctCount' = NewCorrectCount(correctCount, isCorrect)
    /\ confidence' = UpdateConfidence(confidence, flashcards, currentIndex, isCorrect)
    /\ streak' = NewStreak(streak, isCorrect)
    /\ currentIndex' \in GetNextCard(Closure, confidence')
    /\ showAnswer' = FALSE
    /\ userAnswer' = <<>>
    /\ scored' = FALSE
    /\ UNCHANGED <<otherPages, reply, isLoading, navigated, flashcards, spacedRepetition, shuffles,
                   typingMode, timers>>

\* handleAnswer(isCorrect), from the "Got It!" / "Still Learning" buttons (or
\* "Continue" in typing mode), which are shown while the answer is revealed and
\* stay shown until an advance hides it: correctCount, updateConfidence, and the
\* setTimeout whose callback keeps this render's getNextCard.  isCorrect is any
\* boolean: the user's own grading, or the comparison typing mode computes.
HandleAnswer(isCorrect) ==
    /\ Rendered
    /\ showAnswer
    /\ Len(timers) < MaxPending
    /\ answered < MaxAnswers
    /\ answered' = answered + 1
    /\ correctCount' = NewCorrectCount(correctCount, isCorrect)
    /\ confidence' = UpdateConfidence(confidence, flashcards, currentIndex, isCorrect)
    /\ streak' = NewStreak(streak, isCorrect)
    /\ timers' = Append(timers, Closure)
    /\ scored' = TRUE
    /\ UNCHANGED <<otherPages, reply, isLoading, navigated, flashcards, currentIndex, showAnswer,
                   spacedRepetition, shuffles, typingMode, userAnswer>>

AdvanceKeepsInput ==
    /\ timers # <<>>
    /\ timers' = Tail(timers)
    /\ IF navigated
       THEN UNCHANGED <<currentIndex, showAnswer, userAnswer, scored>>
       ELSE /\ currentIndex' \in GetNextCard(Head(timers), confidence)
            /\ showAnswer' = FALSE
            /\ scored' = FALSE
            /\ UNCHANGED userAnswer
    /\ UNCHANGED <<otherPages, reply, isLoading, navigated, flashcards, confidence,
                   correctCount, streak, spacedRepetition, answered, shuffles, typingMode>>

\* The oldest pending setTimeout callback runs: getNextCard of its closure, then
\* setCurrentIndex(nextIdx), setShowAnswer(false), setUserAnswer("").  Nothing
\* clears the timer when the page is left: the callback still runs then, and its
\* state updates are dropped with the page's state.
Advance ==
    /\ timers # <<>>
    /\ timers' = Tail(timers)
    /\ IF navigated
       THEN UNCHANGED <<currentIndex, showAnswer, userAnswer, scored>>
       ELSE /\ currentIndex' \in GetNextCard(Head(timers), confidence)
            /\ showAnswer' = FALSE
            /\ userAnswer' = <<>>
            /\ scored' = FALSE
    /\ UNCHANGED <<otherPages, reply, isLoading, navigated, flashcards, confidence, correctCount,
                   streak, spacedRepetition, answered, shuffles, typingMode>>

\* The "Spaced Repetition" switch: onCheckedChange={setSpacedRepetition}.
ToggleSpacedRepetition ==
    /\ Rendered
    /\ spacedRepetition' = ~spacedRepetition
    /\ UNCHANGED <<otherPages, reply, isLoading, navigated, flashcards, confidence, currentIndex,
                   showAnswer, correctCount, streak, timers, answered, shuffles,
                   typingMode, userAnswer, scored>>

\* The "Typing Mode" switch: onCheckedChange={setTypingMode}.
ToggleTypingMode ==
    /\ Rendered
    /\ typingMode' = ~typingMode
    /\ UNCHANGED <<otherPages, reply, isLoading, navigated, flashcards, confidence, currentIndex,
                   showAnswer, correctCount, streak, spacedRepetition, timers, answered,
                   shuffles, userAnswer, scored>>

\* The "Exit" button: navigate("/") leaves the page; pending timers stay set.
Exit ==
    /\ Rendered
    /\ navigated' = TRUE
    /\ UNCHANGED <<otherPages, reply, isLoading, flashcards, confidence, currentIndex, showAnswer,
                   correctCount, streak, spacedRepetition, timers, answered, shuffles,
                   typingMode, userAnswer, scored>>

\* A session answered with the buttons: the typing switch is left off.
Next ==
    \/ FetchSetAndCards
    \/ HandleShuffle
    \/ ShowAnswer
    \/ \E isCorrect \in BOOLEAN : HandleAnswer(isCorrect)
    \/ Advance
    \/ ToggleSpacedRepetition
    \/ Exit

Spec == Init /\ [][Next]_vars

\* A session that also uses typing mode, in the order the deck was loaded in:
\* the shuffle button is left alone.
NextTyping ==
    \/ FetchSetAndCards
    \/ ShowAnswer
    \/ \E text \in Inputs : TypeAnswer(text)
    \/ HandleSubmit
    \/ \E isCorrect \in BOOLEAN : HandleAnswer(isCorrect)
    \/ Advance
    \/ ToggleSpacedRepetition
    \/ ToggleTypingMode
    \/ Exit

SpecTyping == Init /\ [][NextTyping]_vars

\* The user turns the "Spaced Repetition" switch off, at any time.
SwitchSpacedRepetitionOff ==
    /\ spacedRepetition
    /\ ToggleSpacedRepetition

\* A session the user does not leave, in which every set timer fires (the
\* event loop runs it after its delay): typing mode in use, the deck in the
\* order it was loaded in, the policy switched at most once.
NextLoop ==
    \/ FetchSetAndCards
    \/ ShowAnswer
    \/ \E text \in Inputs : TypeAnswer(text)
    \/ HandleSubmit
    \/ \E isCorrect \in BOOLEAN : HandleAnswer(isCorrect)
    \/ Advance
    \/ SwitchSpacedRepetitionOff
    \/ ToggleTypingMode

SpecLoop == Init /\ [][NextLoop]_vars /\ WF_vars(Advance)

\* ------------------------------------------------- typed answers, compared

\* The characters of typed texts and definitions: a blank, a letter in lower
\* and in upper case, a punctuation mark.
TextAlphabet == {" ", "a", "A", ","}

\* The texts typed into the input: every text of up to MaxText characters.
Texts == UNION {[1..n -> TextAlphabet] : n \in 0..MaxText}

\* The definitions a card of the store can hold.
Definitions ==
    {<<>>, <<" ">>, <<"a">>, <<"A">>, <<"a", ",">>, <<" ", "A">>, <<"a", " ", "a">>}

\* The store answers with one card and its definition.
DefinedReplies ==
    {[setError |-> FALSE, setFound |-> TRUE, cardsError |-> FALSE,
      cardsData |-> Rows(1), definition |-> [c \in {1} |-> d]] : d \in Definitions}

\* String.prototype.toLowerCase.
ToLowerCase(text) == [i \in DOMAIN text |-> IF text[i] = "A" THEN "a" ELSE text[i]]

IsCorrectTypedNoTrim(input, definition) ==
    ToLowerCase(input) = ToLowerCase(definition)

\* userAnswer.toLowerCase().trim() === currentCard.definition.toLowerCase().trim()
IsCorrectTyped(input, definition) ==
    Trim(ToLowerCase(input)) = Trim(ToLowerCase(definition))

\* The "Continue" button of typing mode (shown while the answer is revealed):
\* handleAnswer with the comparison of the input and the card's definition.
Continue ==
    /\ typingMode
    /\ HandleAnswer(IsCorrectTyped(userAnswer, reply.definition[CurrentCard]))

\* The "Got It!" / "Still Learning" buttons, shown without typing mode.
AnswerWithButton(isCorrect) ==
    /\ ~typingMode
    /\ HandleAnswer(isCorrect)

\* A session on one card whose definition is known, with typing mode in use.
InitTyped ==
    /\ \E r \in DefinedReplies : LearnModeState(r)
    /\ TestModeState(IdleReply)
    /\ EdgeState(IdleRequest)

NextTyped ==
    \/ FetchSetAndCards
    \/ ToggleTypingMode
    \/ ShowAnswer
    \/ \E text \in Texts : TypeAnswer(text)
    \/ HandleSubmit
    \/ Continue
    \/ \E isCorrect \in BOOLEAN : AnswerWithButton(isCorrect)
    \/ Advance

SpecTyped == InitTyped /\ [][NextTyped]_vars

\* ------------------------------------------- sessions of a disciplined user

\* The user turns the "Spaced Repetition" switch off once, before any answer.
TurnSpacedRepetitionOff ==
    /\ spacedRepetition
    /\ answered = 0
    /\ ToggleSpacedRepetition

\* The user answers a card under the sequential policy, once per presentation.
AnswerOnce(isCorrect) ==
    /\ ~spacedRepetition
    /\ ~scored
    /\ HandleAnswer(isCorrect)

\* The user types a word into the input of typing mode.
TypeWord == TypeAnswer(<<"a">>)

\* A session under the sequential policy: the switch is turned off at the
\* start and left off, the deck is not shuffled, every presentation is answered
\* at most once, the page is not left.  The answer is revealed with the button
\* or, in typing mode, by submitting a typed text.
NextSequential ==
    \/ FetchSetAndCards
    \/ TurnSpacedRepetitionOff
    \/ ToggleTypingMode
    \/ \E text \in Inputs : TypeAnswer(text)
    \/ HandleSubmit
    \/ ShowAnswer
    \/ \E isCorrect \in BOOLEAN : AnswerOnce(isCorrect)
    \/ Advance

\* The load's replies arrive and set timers fire (the event loop runs them).
\* The user of this session keeps going: turns the switch off, reveals the
\* answer in the mode the page is in (typing a word first where the input is
\* blank), and answers what is revealed.
SpecSequential ==
    /\ Init
    /\ [][NextSequential]_vars
    /\ WF_vars(FetchSetAndCards)
    /\ WF_vars(Advance)
    /\ WF_vars(TurnSpacedRepetitionOff)
    /\ SF_vars(ShowAnswer)
    /\ SF_vars(TypeWord)
    /\ SF_vars(HandleSubmit)
    /\ WF_vars(\E isCorrect \in BOOLEAN : AnswerOnce(isCorrect))

\* ---------------------------------------------------------------- Test Mode

\* The cap on the number of questions: Math.min(..., 40).
MaxQuestions == 40

\* The numbers the question-count input hands to its onChange:
\* Number(e.target.value), 0 for an emptied input, and a negative number.
CountInputs == -1..(MaxCards + 1)

\* The minutes typed into the time-limit input.
TimeLimits == {0, 1}

\* The settings form is rendered: past the loading guard, the test not started.
SettingsShown == ~testIsLoading /\ ~testNavigated /\ ~testStarted

\* fetchSetAndCards of Test Mode: the branches of Learn Mode's, then
\* setFlashcards(cardsData) and setQuestionCount(Math.min(cardsData.length, 10)).
TestFetchSetAndCards ==
    /\ testIsLoading
    /\ IF LoadOutcome(testReply) = "ready"
       THEN /\ testFlashcards' = testReply.cardsData
            /\ questionCount' = Min(Len(testReply.cardsData), DefaultQuestionCount)
            /\ UNCHANGED testNavigated
       ELSE /\ testNavigated' = TRUE
            /\ UNCHANGED <<testFlashcards, questionCount>>
    /\ testIsLoading' = FALSE
    /\ UNCHANGED <<testReply, useAI, timeLimit, selectedTypes, isGenerating, testStarted,
                   questions, timeRemaining, generating, runVars, learnVars,
                   edgeVars>>

ToggleQuestionTypeNoGuard(type) ==
    /\ SettingsShown
    /\ selectedTypes' =
           IF type \in selectedTypes THEN selectedTypes \ {type}
           ELSE selectedTypes \cup {type}
    /\ UNCHANGED <<testReply, testIsLoading, testNavigated, testFlashcards, questionCount,
                   useAI, timeLimit, isGenerating, testStarted, questions, timeRemaining,
                   generating, runVars, learnVars, edgeVars>>

\* toggleQuestionType(type), from the three checkboxes.
ToggleQuestionType(type) ==
    /\ SettingsShown
    /\ selectedTypes' =
           IF type \in selectedTypes
           THEN IF Cardinality(selectedTypes) > 1 THEN selectedTypes \ {type}
                ELSE selectedTypes
           ELSE selectedTypes \cup {type}
    /\ UNCHANGED <<testReply, testIsLoading, testNavigated, testFlashcards, questionCount,
                   useAI, timeLimit, isGenerating, testStarted, questions, timeRemaining,
                   generating, runVars, learnVars,
                   edgeVars>>

\* The question-count input:
\* setQuestionCount(Math.min(Number(e.target.value), flashcards.length, 40)).
SetQuestionCount(value) ==
    /\ SettingsShown
    /\ questionCount' = Min(value, Min(Len(testFlashcards), MaxQuestions))
    /\ UNCHANGED <<testReply, testIsLoading, testNavigated, testFlashcards, useAI,
                   timeLimit, selectedTypes, isGenerating, testStarted, questions,
                   timeRemaining, generating, runVars, learnVars,
                   edgeVars>>

\* The time-limit input: setTimeLimit(Number(e.target.value)).
SetTimeLimit(value) ==
    /\ SettingsShown
    /\ timeLimit' = value
    /\ UNCHANGED <<testReply, testIsLoading, testNavigated, testFlashcards, questionCount,
                   useAI, selectedTypes, isGenerating, testStarted, questions,
                   timeRemaining, generating, runVars, learnVars,
                   edgeVars>>

\* The "Use AI" checkbox: setUseAI(checked).
SetUseAI ==
    /\ SettingsShown
    /\ useAI' = ~useAI
    /\ UNCHANGED <<testReply, testIsLoading, testNavigated, testFlashcards, questionCount,
                   timeLimit, selectedTypes, isGenerating, testStarted, questions,
                   timeRemaining, generating, runVars, learnVars,
                   edgeVars>>

\* Array.prototype.slice(0, count): a negative count counts from the end.
SliceTo(cards, count) ==
    IF count >= 0 THEN SubSeq(cards, 1, Min(count, Len(cards)))
    ELSE SubSeq(cards, 1, Max(Len(cards) + count, 0))

\* What a generateQuestions call keeps across its await: selectedCards (the
\* first count cards of the deck as just sorted), selectedTypes and timeLimit.
GenerationClosure(cards) ==
    [selectedCards |->
         SliceTo(cards, Min(questionCount, Min(Len(cards), MaxQuestions))),
     selectedTypes |-> selectedTypes,
     timeLimit |-> timeLimit]

ManualQuestionsAnyType(g) ==
    {[i \in 1..Len(g.selectedCards) |->
          [card |-> g.selectedCards[i], question_type |-> type[i], source |-> "manual"]] :
        type \in [1..Len(g.selectedCards) -> AllTypes]}

\* The fallback: selectedCards.map(card => ...), one question per card, its type
\* drawn from selectedTypes.  The lists the draws can give.
ManualQuestions(g) ==
    {[i \in 1..Len(g.selectedCards) |->
          [card |-> g.selectedCards[i], question_type |-> type[i], source |-> "manual"]] :
        type \in [1..Len(g.selectedCards) -> g.selectedTypes]}

\* The end of generateQuestions on either path: setQuestions, setTestStarted(true),
\* setTimeRemaining(timeLimit * 60) under a time limit, setIsGenerating(false).
StartTest(list, g) ==
    /\ questions' = list
    /\ testStarted' = TRUE
    /\ timeRemaining' = IF g.timeLimit > 0 THEN <<g.timeLimit * 60>> ELSE timeRemaining
    /\ isGenerating' = FALSE

\* What supabase.functions.invoke gives generateQuestions: an error (returned or
\* thrown), data without questions (none or an empty list), or a list of
\* questions, which the gateway chose: any number of any type.
Invocations ==
    {[kind |-> "error"], [kind |-> "none"]}
    \cup {[kind |-> "questions", questions |-> list] :
              list \in UNION {[1..n -> {[question_type |-> type, source |-> "ai"] :
                                           type \in AllTypes}] : n \in 1..MaxCards}}

\* generateQuestions, from the "Start Test" button (disabled while isGenerating),
\* up to its await: the deck is sorted in place in a random order; without AI
\* the call runs to its end at once.
GenerateQuestions ==
    /\ SettingsShown
    /\ ~isGenerating
    /\ selectedTypes # {}
    /\ \E order \in Shuffled(testFlashcards) :
           /\ testFlashcards' = order
           /\ IF useAI
              THEN /\ isGenerating' = TRUE
                   /\ generating' = <<GenerationClosure(order)>>
                   /\ UNCHANGED <<questions, testStarted, timeRemaining>>
              ELSE /\ \E list \in ManualQuestions(GenerationClosure(order)) :
                          StartTest(list, GenerationClosure(order))
                   /\ UNCHANGED generating
    /\ UNCHANGED <<testReply, testIsLoading, testNavigated, questionCount, useAI,
                   timeLimit, selectedTypes, runVars, learnVars,
                   edgeVars>>

\* generateQuestions after its await: the questions of the gateway when there
\* are some, else (an error, caught, or no questions) the fallback.
GatewayReply(invoked) ==
    /\ generating # <<>>
    /\ IF invoked.kind = "questions"
       THEN StartTest(invoked.questions, generating[1])
       ELSE \E list \in ManualQuestions(generating[1]) : StartTest(list, generating[1])
    /\ generating' = <<>>
    /\ UNCHANGED <<testReply, testIsLoading, testNavigated, testFlashcards, questionCount,
                   useAI, timeLimit, selectedTypes, runVars, learnVars,
                   edgeVars>>

InitTest ==
    /\ \E r \in Replies : TestModeState(r)
    /\ LearnModeState(IdleReply)
    /\ EdgeState(IdleRequest)

NextTest ==
    \/ TestFetchSetAndCards
    \/ \E type \in AllTypes : ToggleQuestionType(type)
    \/ \E value \in CountInputs : SetQuestionCount(value)
    \/ \E value \in TimeLimits : SetTimeLimit(value)
    \/ SetUseAI
    \/ GenerateQuestions
    \/ \E invoked \in Invocations : GatewayReply(invoked)

SpecTest == InitTest /\ [][NextTest]_vars

\* ------------------------------------------------- Test Mode, the test run

\* What the test run leaves alone of the state of the settings form.
setupVars ==
    <<testReply, testIsLoading, testNavigated, testFlashcards, questionCount, useAI,
      timeLimit, selectedTypes, isGenerating, testStarted, generating>>

\* The question view is rendered: past the loading guard, the settings form and
\* the results view.  It reads questions[currentIndex].question_type, so with
\* no question at currentIndex the render throws and the page is gone.
TestQuestionShown ==
    /\ ~testIsLoading
    /\ ~testNavigated
    /\ testStarted
    /\ ~showResults
    /\ testCurrentIndex < Len(questions)

\* The answers the question at currentIndex lets the user give: any text in the
\* input of a fill_blank question, one of the options of the radio group else.
AnswerInputs ==
    IF questions[testCurrentIndex + 1].question_type = "fill_blank" THEN Inputs
    ELSE {<<"a">>}

\* The input's onChange and the radio group's onValueChange: setUserAnswer.
SetTestAnswer(text) ==
    /\ TestQuestionShown
    /\ text \in AnswerInputs
    /\ testUserAnswer' = text
    /\ UNCHANGED <<setupVars, questions, timeRemaining, testCurrentIndex, showResults,
                   learnVars, edgeVars>>

\* finishTest: setShowResults(true); setTimeRemaining(null).
FinishTest ==
    /\ showResults' = TRUE
    /\ timeRemaining' = <<>>

\* handleSubmit of Test Mode, from Enter in the input (userAnswer not empty) and
\* from the Submit buttons: the answer is recorded in the question at
\* currentIndex, then the next question or, on the last one, finishTest.
TestHandleSubmit ==
    /\ TestQuestionShown
    /\ testUserAnswer # <<>>
    /\ questions' = [questions EXCEPT ![testCurrentIndex + 1] =
                         ("user_answer" :> testUserAnswer) @@ @]
    /\ IF testCurrentIndex < Len(questions) - 1
       THEN /\ testCurrentIndex' = testCurrentIndex + 1
            /\ testUserAnswer' = <<>>
            /\ UNCHANGED <<showResults, timeRemaining>>
       ELSE /\ FinishTest
            /\ UNCHANGED <<testCurrentIndex, testUserAnswer>>
    /\ UNCHANGED <<setupVars, learnVars, edgeVars>>

\* The "Exit" button of the question view and the button of the results view:
\* navigate("/").
TestExit ==
    /\ ~testIsLoading
    /\ ~testNavigated
    /\ testStarted
    /\ showResults \/ testCurrentIndex < Len(questions)
    /\ testNavigated' = TRUE
    /\ UNCHANGED <<testReply, testIsLoading, testFlashcards, questionCount, useAI,
                   timeLimit, selectedTypes, isGenerating, testStarted, questions,
                   timeRemaining, generating, runVars, learnVars, edgeVars>>

\* A test from its settings to its results, without a time limit.
NextRun ==
    \/ TestFetchSetAndCards
    \/ \E value \in CountInputs : SetQuestionCount(value)
    \/ SetUseAI
    \/ GenerateQuestions
    \/ \E invoked \in Invocations : GatewayReply(invoked)
    \/ \E text \in Inputs : SetTestAnswer(text)
    \/ TestHandleSubmit
    \/ TestExit

SpecRun == InitTest /\ [][NextRun]_vars

\* ------------------------------------------------ Test Mode, the countdown

\* The countdown effect has a timer pending: its condition
\* (testStarted && timeLimit > 0 && timeRemaining !== null) held in the render
\* that ran it, on a page that is rendered.
CountdownRuns ==
    /\ ~testIsLoading
    /\ ~testNavigated
    /\ testStarted
    /\ showResults \/ testCurrentIndex < Len(questions)
    /\ timeLimit > 0
    /\ timeRemaining # <<>>

\* The timer of the effect fires: setTimeRemaining(timeRemaining - 1), with the
\* timeRemaining of the render that set it, which is the current one since the
\* effect depends on timeRemaining.
Tick ==
    /\ CountdownRuns
    /\ timeRemaining[1] > 0
    /\ timeRemaining' = <<timeRemaining[1] - 1>>
    /\ UNCHANGED <<setupVars, questions, runVars, learnVars, edgeVars>>

\* The effect of a render with timeRemaining <= 0: finishTest(), no new timer.
TimeUp ==
    /\ CountdownRuns
    /\ timeRemaining[1] <= 0
    /\ FinishTest
    /\ UNCHANGED <<setupVars, questions, testCurrentIndex, testUserAnswer, learnVars,
                   edgeVars>>

\* A timed test: the settings are the time limit and the AI switch.
NextTimed ==
    \/ TestFetchSetAndCards
    \/ \E value \in TimeLimits : SetTimeLimit(value)
    \/ SetUseAI
    \/ GenerateQuestions
    \/ \E invoked \in Invocations : GatewayReply(invoked)
    \/ \E text \in Inputs : SetTestAnswer(text)
    \/ TestHandleSubmit
    \/ Tick
    \/ TimeUp

\* A pending timer fires, and an effect that is due runs.
SpecTimed == InitTest /\ [][NextTimed]_vars /\ WF_vars(Tick) /\ WF_vars(TimeUp)

\* ------------------------------------------- question-generation endpoint

\* The characters of a message content: the punctuation of a JSON array, a
\* digit, and a letter standing for any other text.
Alphabet == {"[", "]", ",", "1", "x"}

\* The message contents of the model: every text of up to MaxContent characters.
Contents == UNION {[1..n -> Alphabet] : n \in 0..MaxContent}

\* What a POST request meets: a body req.json() reads or not, the API key set
\* or not, and the gateway's answer: no answer (fetch throws), a status that is
\* not ok, or an ok answer whose body is not JSON, is JSON without
\* choices[0].message, or holds a message with a content that is null or a text.
Gateways ==
    {[kind |-> k] : k \in {"unreachable", "notOk", "bodyNotJson", "noChoices", "nullContent"}}
    \cup {[kind |-> "content", content |-> c] : c \in Contents}

Requests ==
    {[method |-> "OPTIONS"]}
    \cup {[method |-> "POST", bodyOk |-> FALSE]}
    \cup {[method |-> "POST", bodyOk |-> TRUE, apiKey |-> FALSE]}
    \cup {[method |-> "POST", bodyOk |-> TRUE, apiKey |-> TRUE, gateway |-> g] :
              g \in Gateways}

\* Positions of a character in a text.
Positions(text, ch) == {i \in 1..Len(text) : text[i] = ch}

SetMin(S) == CHOOSE m \in S : \A x \in S : m <= x

SetMax(S) == CHOOSE m \in S : \A x \in S : m >= x

\* aiResponse.match(/\[[\s\S]*\]/): <<>> for null, else <<the match>>, which
\* runs from the first "[" to the last "]" behind it (the star is greedy).
JsonMatch(text) ==
    IF Positions(text, "[") = {} THEN <<>>
    ELSE LET open == SetMin(Positions(text, "["))
             closes == {i \in Positions(text, "]") : i > open}
         IN  IF closes = {} THEN <<>>
             ELSE <<SubSeq(text, open, SetMax(closes))>>

\* JSON.parse on texts of the alphabet.  A value is a number (digits) or an
\* array "[" value "," ... "]".  ValueEnd(t, i) is the position behind the value
\* that starts at position i of t, and 0 when no value starts there;
\* ElementsEnd(t, i) likewise for the elements and the closing bracket of an
\* array whose elements start at i.
RECURSIVE DigitsEnd(_, _)
DigitsEnd(t, i) ==
    IF i <= Len(t) /\ t[i] = "1" THEN DigitsEnd(t, i + 1) ELSE i

RECURSIVE ValueEnd(_, _), ElementsEnd(_, _)
ValueEnd(t, i) ==
    IF i > Len(t) THEN 0
    ELSE IF t[i] = "1" THEN DigitsEnd(t, i)
    ELSE IF t[i] = "["
         THEN IF i + 1 <= Len(t) /\ t[i + 1] = "]" THEN i + 2 ELSE ElementsEnd(t, i + 1)
    ELSE 0

ElementsEnd(t, i) ==
    LET e == ValueEnd(t, i)
    IN  IF e = 0 \/ e > Len(t) THEN 0
        ELSE IF t[e] = "]" THEN e + 1
        ELSE IF t[e] = "," THEN ElementsEnd(t, e + 1)
        ELSE 0

\* JSON.parse(t) returns (it throws a SyntaxError otherwise).
JsonParses(t) == ValueEnd(t, 1) = Len(t) + 1

\* The elements of the array text t, each as its own text.
RECURSIVE ElementsFrom(_, _)
ElementsFrom(t, i) ==
    IF t[i] = "]" THEN <<>>
    ELSE LET e == ValueEnd(t, i)
         IN  <<SubSeq(t, i, e - 1)>>
             \o (IF t[e] = "," THEN ElementsFrom(t, e + 1) ELSE <<>>)

JsonParse(t) == ElementsFrom(t, 2)

ExtractQuestionsNoCatch(g) ==
    IF g.kind = "nullContent" THEN [threw |-> TRUE]
    ELSE LET jsonMatch == JsonMatch(g.content)
         IN  IF jsonMatch = <<>> THEN [threw |-> FALSE, questions |-> <<>>]
             ELSE IF JsonParses(jsonMatch[1])
                  THEN [threw |-> FALSE, questions |-> JsonParse(jsonMatch[1])]
                  ELSE [threw |-> TRUE]

\* The inner try of serve on the message content: match and parse, and the
\* empty list when either throws (match on a null content, parse on a text
\* that is not JSON).
ExtractQuestions(g) ==
    IF g.kind = "nullContent" THEN [threw |-> FALSE, questions |-> <<>>]
    ELSE LET jsonMatch == JsonMatch(g.content)
         IN  IF jsonMatch = <<>> THEN [threw |-> FALSE, questions |-> <<>>]
             ELSE IF JsonParses(jsonMatch[1])
                  THEN [threw |-> FALSE, questions |-> JsonParse(jsonMatch[1])]
                  ELSE [threw |-> FALSE, questions |-> <<>>]

\* The Response of the outer catch.
ErrorResponse == [status |-> 500, error |-> TRUE]

\* The Response serve returns for request r.
Response(r) ==
    IF r.method = "OPTIONS" THEN [status |-> 200, cors |-> TRUE]
    ELSE IF ~r.bodyOk THEN ErrorResponse
    ELSE IF ~r.apiKey THEN ErrorResponse
    ELSE IF r.gateway.kind \in {"unreachable", "notOk", "bodyNotJson", "noChoices"}
         THEN ErrorResponse
    ELSE LET extracted == ExtractQuestions(r.gateway)
         IN  IF extracted.threw THEN ErrorResponse
             ELSE [status |-> 200, questions |-> extracted.questions]

\* serve handles the request.
Serve ==
    /\ served = <<>>
    /\ served' = <<Response(req)>>
    /\ UNCHANGED <<req, learnVars, testVars>>

InitEdge ==
    /\ \E r \in Requests : EdgeState(r)
    /\ LearnModeState(IdleReply)
    /\ TestModeState(IdleReply)

NextEdge == Serve

SpecEdge == InitEdge /\ [][NextEdge]_vars

\* ------------------------------------------------------------- the hint

\* The characters of a definition: a blank, a line break and two letters.
HintAlphabet == {" ", "\n", "a", "b"}

\* The definitions whose hint is derived: every text of up to MaxText
\* characters, and two longer ones with a run of blanks in them.
HintDefinitions ==
    UNION {[1..n -> HintAlphabet] : n \in 0..MaxText}
    \cup {<<"a", " ", " ", "b">>, <<"a", " ", "b", " ">>}

HintReplies ==
    {[setError |-> FALSE, setFound |-> TRUE, cardsError |-> FALSE,
      cardsData |-> Rows(1), definition |-> [c \in {1} |-> d]] : d \in HintDefinitions}

\* text.split(' '): the pieces between the blanks, empty pieces included.
RECURSIVE Split(_)
Split(text) ==
    IF \A i \in DOMAIN text : text[i] # " " THEN <<text>>
    ELSE LET i == SetMin({j \in DOMAIN text : text[j] = " "})
         IN  <<SubSeq(text, 1, i - 1)>> \o Split(SubSeq(text, i + 1, Len(text)))

\* The value undefined of JavaScript.
Undefined == "undefined"

\* w[0]: the first character of a string, undefined for the empty string.
CharAt0(w) == IF w = <<>> THEN Undefined ELSE w[1]

\* The conversion of a value to a string when it is added to a string.
ToText(v) ==
    IF v = Undefined THEN <<"u", "n", "d", "e", "f", "i", "n", "e", "d">> ELSE <<v>>

\* Array.prototype.join(' '): an undefined element is joined as the empty string.
RECURSIVE Join(_)
Join(list) ==
    IF list = <<>> THEN <<>>
    ELSE LET first == IF list[1] = Undefined THEN <<>> ELSE <<list[1]>>
         IN  IF Len(list) = 1 THEN first ELSE first \o <<" ">> \o Join(Tail(list))

Ellipsis == <<".", ".", ".">>

\* getHint(text).
GetHint(text) ==
    LET words == Split(text)
    IN  IF Len(words) = 1 THEN ToText(CharAt0(text)) \o Ellipsis
        ELSE Join([i \in DOMAIN words |-> CharAt0(words[i])]) \o Ellipsis

\* The hint is on the page: showHints && !showAnswer, on the rendered card.
HintShown == Rendered /\ ~showAnswer

\* A session on one card whose definition is known, answered with the buttons.
InitHint ==
    /\ \E r \in HintReplies : LearnModeState(r)
    /\ TestModeState(IdleReply)
    /\ EdgeState(IdleRequest)

NextHint ==
    \/ FetchSetAndCards
    \/ ShowAnswer
    \/ \E isCorrect \in BOOLEAN : AnswerWithButton(isCorrect)
    \/ Advance

SpecHint == InitHint /\ [][NextHint]_vars

\* ------------------------------------------------------------------- claims

\* C1: after a successful load, every card's stored confidence is an integer in
\* 0..100, whatever answers, advances, shuffles and toggle changes happened.
C1_ConfidenceInRange ==
    \A c \in DOMAIN confidence : confidence[c] \in 0..100

\* C1 witness: a card was answered correctly at confidence 90 and stands at 100.
C1_Witness ==
    /\ Rendered
    /\ \E c \in DOMAIN confidence : confidence[c] = 100

\* C2: answering correctly sets the presented card's confidence to
\* min(100, c + 20), for every stored confidence c in 0..100, 0 included.
C2_CorrectAddsTwenty ==
    [][HandleAnswer(TRUE) =>
         confidence'[CurrentCard] = Min(100, confidence[CurrentCard] + 20)]_vars

\* C3: answering incorrectly sets the presented card's confidence to
\* max(0, c - 25), for every stored confidence c in 0..100, 0 included, so an
\* incorrect answer never raises a card's confidence.
C3_IncorrectSubtractsTwentyFive ==
    [][HandleAnswer(FALSE) =>
         /\ confidence'[CurrentCard] = Max(0, confidence[CurrentCard] - 25)
         /\ confidence'[CurrentCard] <= confidence[CurrentCard]]_vars

\* The cards whose stored confidence is strictly lower than that of card c.
StrictlyLower(c) == {d \in DOMAIN confidence : confidence[d] < confidence[c]}

\* C4: when an advance runs under the confidence-weighted policy, the card it
\* presents is among the k = max(1, floor(0.4 * n)) lowest-confidence cards by
\* stored confidence: at most k - 1 cards have a strictly lower confidence.
C4_AdvancePresentsLowConfidence ==
    [][(Advance /\ Head(timers).spacedRepetition) =>
         Cardinality(StrictlyLower(flashcards'[currentIndex' + 1]))
             <= Max(1, (4 * Len(flashcards)) \div 10) - 1]_vars

\* C5: after a successful load, currentIndex is a valid index of the Working
\* Set: 0 <= currentIndex < number of cards.
C5_CurrentIndexValid ==
    Rendered => currentIndex \in 0..(Len(flashcards) - 1)

\* C5 witness: an advance has moved currentIndex off 0 and two further advances
\* are pending at once.
C5_Witness ==
    /\ Rendered
    /\ currentIndex = Len(flashcards) - 1
    /\ currentIndex > 0
    /\ Len(timers) = 2

\* C6: under the sequential policy the advance sets currentIndex to
\* (i + 1) mod n, where i is the index presented immediately before the advance
\* fires and n the number of cards.
C6_SequentialAdvance ==
    [][(Advance /\ ~Head(timers).spacedRepetition) =>
         currentIndex' = (currentIndex + 1) % Len(flashcards)]_vars

\* C7: every correct answer increases streak by exactly 1, every incorrect answer
\* sets it to 0, and no other step (advance, shuffle, toggle, reveal, load)
\* changes it: streak counts the correct answers since the last incorrect one.
C7_Streak ==
    [][/\ HandleAnswer(TRUE) => streak' = streak + 1
       /\ HandleAnswer(FALSE) => streak' = 0
       /\ ~(\E isCorrect \in BOOLEAN : HandleAnswer(isCorrect)) => streak' = streak]_vars

\* C7 witness: two correct answers were followed by an incorrect one, which
\* reset the streak.
C7_Witness ==
    /\ streak = 0
    /\ correctCount = 2
    /\ answered = 3

\* C8: shuffle leaves the Working Set a permutation of the same cards, sets
\* currentIndex to 0 and leaves every card's confidence, the streak and
\* correctCount unchanged.
C8_ShuffleFrame ==
    [][HandleShuffle =>
         /\ Len(flashcards') = Len(flashcards)
         /\ Range(flashcards') = Range(flashcards)
         /\ Cardinality(Range(flashcards')) = Len(flashcards')
         /\ currentIndex' = 0
         /\ confidence' = confidence
         /\ streak' = streak
         /\ correctCount' = correctCount]_vars

\* C8 witness: after a correct answer the cards were shuffled into another order
\* than the fetched one; the index is 0 and the answer's effects are kept.
C8_Witness ==
    /\ Rendered
    /\ flashcards # reply.cardsData
    /\ currentIndex = 0
    /\ streak > 0
    /\ correctCount > 0
    /\ \E c \in DOMAIN confidence : confidence[c] = 70

\* C9: on a successful load of a set with at least one card the Working Set is
\* the fetched cards in the fetched order, every card has confidence 50, and
\* currentIndex, streak and correctCount are 0.
C9_SuccessfulLoad ==
    [][(/\ FetchSetAndCards
        /\ ~reply.setError /\ reply.setFound /\ ~reply.cardsError
        /\ Len(reply.cardsData) >= 1) =>
         /\ flashcards' = reply.cardsData
         /\ DOMAIN confidence' = Range(reply.cardsData)
         /\ \A c \in Range(reply.cardsData) : confidence'[c] = 50
         /\ currentIndex' = 0
         /\ streak' = 0
         /\ correctCount' = 0
         /\ ~isLoading'
         /\ ~navigated']_vars

\* C9 witness: the state right after the load of a set of MaxCards cards.
C9_Witness ==
    /\ Rendered
    /\ Len(reply.cardsData) = MaxCards
    /\ flashcards = reply.cardsData
    /\ \A c \in DOMAIN confidence : confidence[c] = 50
    /\ answered = 0
    /\ ~showAnswer

\* The store's answer is one on which the session must not start.
LoadFails ==
    reply.setError \/ ~reply.setFound \/ reply.cardsError \/ Len(reply.cardsData) = 0

\* C10: if the lookup finds no record, a query errors or the set has no cards,
\* the session never starts: the Working Set stays empty, the user is routed
\* away once the load ends, no answer is scored, no advance is scheduled, and
\* the page (whose render computes the aggregate) is never rendered with an empty
\* Working Set.
C10_FailedLoadNeverStarts ==
    /\ LoadFails =>
         /\ flashcards = <<>>
         /\ ~isLoading => navigated
         /\ answered = 0 /\ timers = <<>> /\ ~showAnswer
         /\ confidence = <<>>
    /\ Rendered => Len(flashcards) > 0

\* C10 witness: the load of an existing set with zero cards has ended.
C10_Witness ==
    /\ ~isLoading
    /\ navigated
    /\ reply.setFound /\ ~reply.setError /\ ~reply.cardsError
    /\ reply.cardsData = <<>>


\* The sum of the confidences the cards of a deck store.
RECURSIVE SumStored(_, _)
SumStored(cards, conf) ==
    IF cards = <<>> THEN 0 ELSE conf[Head(cards)] + SumStored(Tail(cards), conf)

\* C11: on the rendered page the "Confidence" figure is the mean of the
\* confidences the cards store, rounded to the nearest integer, also when cards
\* store 0, and so it lies in 0..100.
C11_AggregateIsRoundedMean ==
    Rendered =>
        /\ AvgConfidence = RoundDiv(SumStored(flashcards, confidence), Len(flashcards))
        /\ AvgConfidence \in 0..100


\* C14: correctCount never decreases; a correct answer adds exactly 1 to it and
\* every other step (an incorrect answer, an advance, a shuffle, a toggle,
\* leaving the page) keeps it.
C14_CorrectCountCountsCorrectAnswers ==
    [][ /\ correctCount' >= correctCount
        /\ HandleAnswer(TRUE) => correctCount' = correctCount + 1
        /\ ~HandleAnswer(TRUE) => correctCount' = correctCount ]_vars

\* Two correct answers and an incorrect one, around a shuffle and an advance.
C14_Witness ==
    /\ correctCount = 2
    /\ answered = 3
    /\ shuffles = 1
    /\ timers = <<>>

\* C15: a card is scored only while its answer is revealed, and at most once
\* per presentation: no answer is scored between a scoring and the presentation
\* of the next card.
C15_ScoredAtMostOnce ==
    [][ \A isCorrect \in BOOLEAN :
            HandleAnswer(isCorrect) => (showAnswer /\ ~scored) ]_vars

\* C16: leaving the page cancels the pending advance: once the page is left no
\* advance callback remains to run.
C16_ExitCancelsAdvance ==
    (navigated /\ ~isLoading) => timers = <<>>

\* C17: when an advance callback runs the confidence-weighted selection, the
\* confidence it ranks every card by is the confidence that card stores now.
C17_SelectionReadsStoredConfidence ==
    [][ (Advance /\ ~navigated /\ Head(timers).spacedRepetition) =>
            LET cards == Head(timers).flashcards
                sorted == SortedByConfidence(cards, confidence)
            IN  \A i \in 1..Len(sorted) :
                    sorted[i].confidence = confidence[cards[sorted[i].idx + 1]] ]_vars

\* C18: the step that scores an answer updates the answered card's confidence
\* (a correct answer at 100 stores 100 again), the streak and correctCount, and
\* sets the timer; it leaves currentIndex, showAnswer and userAnswer alone, and
\* from then on they change only when an advance callback runs (or the user
\* shuffles).
C18_ScoringBeforeAdvance ==
    [][ /\ \A isCorrect \in BOOLEAN :
               HandleAnswer(isCorrect) =>
                   /\ correctCount' = correctCount + (IF isCorrect THEN 1 ELSE 0)
                   /\ streak' = (IF isCorrect THEN streak + 1 ELSE 0)
                   /\ \/ confidence'[CurrentCard] # confidence[CurrentCard]
                      \/ isCorrect /\ confidence[CurrentCard] = 100
                   /\ Len(timers') = Len(timers) + 1
                   /\ UNCHANGED <<currentIndex, showAnswer, userAnswer>>
        /\ (scored /\ <<currentIndex, showAnswer, userAnswer>>'
                        # <<currentIndex, showAnswer, userAnswer>>)
               => (Advance \/ HandleShuffle) ]_vars

\* A typed answer has been scored and is still shown, its advance pending.
C18_Witness ==
    /\ Rendered
    /\ typingMode
    /\ scored
    /\ showAnswer
    /\ userAnswer = <<"a">>
    /\ Len(timers) = 1
    /\ confidence[CurrentCard] # 50

\* C19: scoring an answer writes the confidence of one card, the card at
\* currentIndex (the value changes, except that a correct answer at 100 stores
\* 100 again); every other card's confidence and the order of the cards stay;
\* and once the set is loaded no step adds or removes a card.
C19_AnswerChangesOneCard ==
    [][ /\ \A isCorrect \in BOOLEAN :
               HandleAnswer(isCorrect) =>
                   /\ \A c \in DOMAIN confidence \ {CurrentCard} :
                          confidence'[c] = confidence[c]
                   /\ \/ confidence'[CurrentCard] # confidence[CurrentCard]
                      \/ isCorrect /\ confidence[CurrentCard] = 100
                   /\ flashcards' = flashcards
        /\ ~isLoading =>
               /\ Len(flashcards') = Len(flashcards)
               /\ Range(flashcards') = Range(flashcards)
               /\ DOMAIN confidence' = DOMAIN confidence ]_vars

\* The second card of a two-card deck has been scored, the first one not.
C19_Witness ==
    /\ Rendered
    /\ Len(flashcards) = 2
    /\ currentIndex = 1
    /\ scored
    /\ confidence[flashcards[1]] = 50
    /\ confidence[flashcards[2]] # 50

\* C20: while the presented card has not been scored since it was presented,
\* no advance callback changes currentIndex, showAnswer or userAnswer.
C20_NoStaleAdvance ==
    [][ (Advance /\ Rendered /\ ~scored) =>
            UNCHANGED <<currentIndex, showAnswer, userAnswer>> ]_vars


\* The gateway answered ok with a message whose content holds no JSON array:
\* it is null, has no bracketed fragment, or its bracketed fragment does not
\* parse.
MalformedContent ==
    /\ req.method = "POST"
    /\ req.bodyOk
    /\ req.apiKey
    /\ \/ req.gateway.kind = "nullContent"
       \/ /\ req.gateway.kind = "content"
          /\ \/ JsonMatch(req.gateway.content) = <<>>
             \/ ~JsonParses(JsonMatch(req.gateway.content)[1])

\* C13: when the gateway answers ok with such a content, the endpoint answers
\* with status 200 and the empty question list, not with an error.
C13_MalformedContentGivesEmptyList ==
    (served # <<>> /\ MalformedContent) =>
        served[1] = [status |-> 200, questions |-> <<>>]

\* An array-looking fragment that does not parse has been answered.
C13_Witness ==
    /\ served # <<>>
    /\ MalformedContent
    /\ req.gateway.kind = "content"
    /\ JsonMatch(req.gateway.content) # <<>>


\* C12: when a generation that uses the AI gateway gets an error or no
\* questions from it, the test starts all the same: testStarted is true,
\* isGenerating false, and the questions are built locally, one per selected
\* card and in their order, each of a type that was selected when the
\* generation was started.
C12_FallbackStartsTest ==
    [][ (\E invoked \in {[kind |-> "error"], [kind |-> "none"]} : GatewayReply(invoked)) =>
            LET g == generating[1]
            IN  /\ testStarted'
                /\ ~isGenerating'
                /\ Len(questions') = Len(g.selectedCards)
                /\ \A i \in 1..Len(questions') :
                       /\ questions'[i].source = "manual"
                       /\ questions'[i].card = g.selectedCards[i]
                       /\ questions'[i].question_type \in g.selectedTypes ]_vars

\* A test of two local questions that was started with the AI in use (without
\* the AI the checkbox is still off when the test starts), with a type left out.
C12_Witness ==
    /\ testStarted
    /\ ~isGenerating
    /\ useAI
    /\ Len(questions) = 2
    /\ \A i \in 1..2 : questions[i].source = "manual"
    /\ selectedTypes # AllTypes


\* C21: in a session under the sequential policy (no shuffle, the switch left
\* off, one answer per presentation) the cards are visited in fixed rotation:
\* every advance presents the next index modulo the number of cards, so after
\* k advances the card at index k mod n is presented and any n consecutive
\* advances present each of the n cards once; and every card of the deck is
\* eventually presented.
C21_FixedRotation ==
    /\ [][(Advance /\ Rendered) =>
              currentIndex' = (currentIndex + 1) % Len(flashcards)]_vars
    /\ [](Rendered =>
              currentIndex = (answered - Len(timers)) % Len(flashcards))
    /\ \A i \in 0..(MaxCards - 1) :
           (LoadOutcome(reply) = "ready" /\ i < Len(reply.cardsData))
               => <>(Rendered /\ currentIndex = i)

\* The rotation has wrapped around: after the last card of a deck of more than
\* one card the first card is presented again.
C21_Witness ==
    /\ Rendered
    /\ ~spacedRepetition
    /\ Len(flashcards) > 1
    /\ answered - Len(timers) = Len(flashcards)
    /\ currentIndex = 0


\* C22: the session loop has no end of its own and does not get stuck: as long
\* as the user stays, the page stays rendered with a card of the deck
\* presented, whatever the answers were; and after every scored answer, the
\* timer firing, the session is again presenting a card with the answer hidden
\* and the input cleared.
C22_SessionLoop ==
    /\ [](Rendered => (Len(flashcards) > 0 /\ currentIndex \in 0..(Len(flashcards) - 1)))
    /\ [][Rendered => Rendered']_vars
    /\ (Rendered /\ scored) ~> (Rendered /\ ~scored /\ ~showAnswer /\ userAnswer = <<>>)

\* Every card of the deck is at confidence 100 and a card is presented, its
\* answer hidden.
C22_Witness ==
    /\ Rendered
    /\ \A c \in DOMAIN confidence : confidence[c] = 100
    /\ timers = <<>>
    /\ ~showAnswer
    /\ userAnswer = <<>>


\* A text is empty or only blanks.
Blank(text) == \A i \in DOMAIN text : text[i] = " "

\* A text without its leading and trailing blanks.
Core(text) ==
    IF Blank(text) THEN <<>>
    ELSE LET marks == {i \in DOMAIN text : text[i] # " "}
         IN  SubSeq(text, CHOOSE i \in marks : \A j \in marks : i <= j,
                          CHOOSE i \in marks : \A j \in marks : i >= j)

\* Two texts are equal up to case and to leading and trailing blanks.
SameText(a, b) ==
    /\ Len(Core(a)) = Len(Core(b))
    /\ \A i \in 1..Len(Core(a)) :
           \/ Core(a)[i] = Core(b)[i]
           \/ {Core(a)[i], Core(b)[i]} = {"a", "A"}

\* "Continue" scores the input as correct exactly when the input and the
\* definition are equal up to case and leading and trailing blanks.
TypedComparison ==
    [][ Continue =>
            ((correctCount' = correctCount + 1)
                 <=> SameText(userAnswer, reply.definition[CurrentCard])) ]_vars

\* C23: in typing mode the input is scored as correct exactly when it equals
\* the definition up to case and leading and trailing blanks, and an input that
\* is empty or only blanks neither reveals the answer nor gets scored.
C23_TypedAnswer ==
    /\ TypedComparison
    /\ [][ (typingMode /\ Blank(userAnswer)) =>
               /\ ~(~showAnswer /\ showAnswer')
               /\ ~Continue ]_vars

\* C27: the set of selected question types is never empty (and holds question
\* types only), whatever checkboxes are toggled, so generateQuestions never
\* meets an empty selection.
C27_SelectedTypesNeverEmpty ==
    /\ selectedTypes # {}
    /\ selectedTypes \subseteq AllTypes

\* Two of the three types were unticked, and a test was started with the one
\* that is left.
C27_Witness ==
    /\ Cardinality(selectedTypes) = 1
    /\ testStarted
    /\ questions # <<>>


\* The submit half of C24 on its own: a submit records the answer in the
\* question at currentIndex and moves to the next question or, on the last
\* one, finishes the test.
SubmitRecordsAndAdvances ==
    [][TestHandleSubmit =>
          /\ questions'[testCurrentIndex + 1].user_answer = testUserAnswer
          /\ IF testCurrentIndex < Len(questions) - 1
             THEN testCurrentIndex' = testCurrentIndex + 1 /\ ~showResults'
             ELSE showResults' /\ timeRemaining' = <<>>]_vars

\* C24: from the start of a test until its results are shown the question list
\* is not empty and currentIndex is an index into it, whatever the question
\* count was (0 and an emptied input included) and on both generation paths;
\* a submit records the answer at currentIndex and advances by exactly one or,
\* on the last question, finishes the test.
C24_QuestionsAndIndexValid ==
    /\ []((testStarted /\ ~showResults) =>
              /\ questions # <<>>
              /\ testCurrentIndex \in 0..(Len(questions) - 1))
    /\ SubmitRecordsAndAdvances


\* The safety half of C25 on its own: the remaining time changes by steps of
\* minus one, is never negative, is cleared in the results, and nothing
\* of the test changes once the results are shown.
CountdownSteps ==
    /\ [][(timeRemaining # <<>> /\ timeRemaining' # <<>> /\ timeRemaining' # timeRemaining)
              => timeRemaining'[1] = timeRemaining[1] - 1]_vars
    /\ [](timeRemaining # <<>> => timeRemaining[1] >= 0)
    /\ [](showResults => timeRemaining = <<>>)
    /\ [][showResults => UNCHANGED testVars]_vars

\* C25: under a positive time limit a started test counts its remaining time
\* down by one per tick, never below 0, and reaches its results, the remaining
\* time cleared, at the latest when the count reaches 0; once the results are
\* shown no tick changes anything.
C25_CountdownFinishesTest ==
    /\ CountdownSteps
    /\ (testStarted /\ timeLimit > 0 /\ ~showResults) ~> (showResults /\ timeRemaining = <<>>)


\* A whitespace character.
IsSpace(ch) == ch \in {" ", "\n"}

\* The whitespace-delimited words of a text, in order.
RECURSIVE WordsOf(_)
WordsOf(text) ==
    IF text = <<>> THEN <<>>
    ELSE IF IsSpace(text[1]) THEN WordsOf(Tail(text))
    ELSE LET ends == {j \in DOMAIN text : IsSpace(text[j])}
             stop == IF ends = {} THEN Len(text) + 1 ELSE SetMin(ends)
         IN  <<SubSeq(text, 1, stop - 1)>> \o WordsOf(SubSeq(text, stop, Len(text)))

\* The first characters of the words, joined by single blanks.
RECURSIVE Initials(_)
Initials(words) ==
    IF Len(words) = 1 THEN <<words[1][1]>>
    ELSE <<words[1][1], " ">> \o Initials(Tail(words))

\* The hint of a definition that is one word and nothing else.
HintOfSingleWord ==
    LET text == reply.definition[CurrentCard]
    IN  (HintShown /\ text # <<>> /\ \A i \in DOMAIN text : ~IsSpace(text[i]))
            => GetHint(text) = <<text[1]>> \o Ellipsis

\* C26: the hint of a one-word definition is its first character and "...";
\* the hint of a definition of several words is the first character of each
\* whitespace-delimited word, joined by single blanks, and "...", whether the
\* words are separated by one blank, by several, or by other whitespace.
C26_HintOfDefinition ==
    LET text == reply.definition[CurrentCard]
    IN  /\ HintOfSingleWord
        /\ (HintShown /\ Len(WordsOf(text)) > 1)
               => GetHint(text) = Initials(WordsOf(text)) \o Ellipsis

====
